---- MODULE Spec2Model ----
(***************************************************************************)
(* A model of the two "this day that year" utilities:                      *)
(*   path_overlay.py   - fetches one GPX export per year, parses it and    *)
(*                       renders an HTML map (Program A);                  *)
(*   reitti_collage.py - logs in with a headless browser, captures one     *)
(*                       screenshot per year and tiles them (Program B).   *)
(* Each behaviour runs one entry point: one of the two main() functions,   *)
(* or a direct call of parse_gpx_coordinates, generate_html_map or         *)
(* create_collage with arguments drawn from bounded sets.                  *)
(***************************************************************************)
EXTENDS Integers, Sequences, FiniteSets, TLC

VARIABLES
    entry,            \* the entry point this run executes
    pc,               \* position in that entry point
    env,              \* the process environment (os.getenv)
    today,            \* datetime.now()
    month_day,        \* the target calendar day the program settled on
    year,             \* loop variable of the per-year loop
    paths_by_year,    \* Program A: insertion-ordered dict year -> coordinates
    responses,        \* history: year -> what requests.get did for that year
    requested,        \* history: the date strings requested / navigated to
    output,           \* files written to the output directories
    reported,         \* failure messages printed
    gpx_content,      \* argument of a direct parse_gpx_coordinates call
    parsed,           \* its return value
    driver,           \* Program B: the browser ("none", "open", "quit")
    logins,           \* Program B: number of login attempts (driver.get(base))
    login_page,       \* history: what the browser showed after the submit
    screenshot_paths, \* Program B: ScreenshotSet
    disk,             \* image files on disk: path -> image
    image_paths,      \* argument of a direct create_collage call
    columns,          \* argument of a direct create_collage call
    collage_ret,      \* return value of create_collage
    exit_status       \* process exit status (-1 while running)

vars == <<entry, pc, env, today, month_day, year, paths_by_year, responses,
          requested, output, reported, gpx_content, parsed, driver, logins,
          login_page, screenshot_paths, disk, image_paths, columns,
          collage_ret, exit_status>>

-----------------------------------------------------------------------------
(* Bounds of the model *)

\* longest GPX document (number of track-point / waypoint elements)
MaxDocLen == 3

\* generic helpers
SeqsUpTo(S, n) == UNION {[1..k -> S] : k \in 0..n}

RECURSIVE SumSeq(_)
SumSeq(s) == IF s = <<>> THEN 0 ELSE Head(s) + SumSeq(Tail(s))

-----------------------------------------------------------------------------
(* path_overlay.py: parse_gpx_coordinates *)

\* the namespace the parser looks in, and another one (GPX 1.0)
GPX11 == "http://www.topografix.com/GPX/1/1"
GPX10 == "http://www.topografix.com/GPX/1/0"

\* attribute values as they appear in the XML text ("None": attribute absent)
LatLonAttrs == { <<"1", "5">>, <<" 2", "5">>, <<"None", "5">>, <<"1", "abc">> }

Elements == [tag : {"trkpt", "wpt"}, ns : {GPX11, GPX10},
             attrs : LatLonAttrs]

\* a document: well-formed or not, and the trkpt/wpt elements below its root
\* in document order
Documents ==
    [wellformed : {TRUE}, elems : SeqsUpTo(Elements, MaxDocLen)]
    \cup [wellformed : {FALSE}, elems : SeqsUpTo(Elements, 1)]

\* Python's float(): None raises TypeError, text that is no number raises
\* ValueError, surrounding whitespace is ignored
PyFloat(s) ==
    CASE s = "None" -> [exc |-> "TypeError", val |-> 0]
      [] s = "1"    -> [exc |-> "None", val |-> 1]
      [] s = " 2"   -> [exc |-> "None", val |-> 2]
      [] s = "5"    -> [exc |-> "None", val |-> 5]
      [] OTHER      -> [exc |-> "ValueError", val |-> 0]

\* root.findall('.//gpx:<tag>', ns): the elements of that tag in the GPX 1.1
\* namespace, in document order
FindAll(doc, tag) ==
    SelectSeq(doc.elems, LAMBDA e : e.tag = tag /\ e.ns = GPX11)

\* one of the two for-loops: float() both attributes of each element and
\* append; the first exception leaves the loop with what was read so far
RECURSIVE ReadPoints(_, _)
ReadPoints(els, coordinates) ==
    IF els = <<>> THEN [exc |-> "None", coordinates |-> coordinates]
    ELSE LET lat == PyFloat(Head(els).attrs[1])
             lon == PyFloat(Head(els).attrs[2])
         IN  IF lat.exc # "None"
                 THEN [exc |-> lat.exc, coordinates |-> coordinates]
             ELSE IF lon.exc # "None"
                 THEN [exc |-> lon.exc, coordinates |-> coordinates]
             ELSE ReadPoints(Tail(els),
                             Append(coordinates, <<lat.val, lon.val>>))

\* the body of the try block
GpxTryBody(doc) ==
    IF ~doc.wellformed THEN [exc |-> "ParseError", coordinates |-> <<>>]
    ELSE LET t == ReadPoints(FindAll(doc, "trkpt"), <<>>)
         IN  IF t.exc # "None" THEN t
             ELSE ReadPoints(FindAll(doc, "wpt"), t.coordinates)

\* faulty variant: the handler returns what was read before the failure
parse_gpx_coordinates_partial(doc) ==
    [raised |-> "None", ret |-> GpxTryBody(doc).coordinates]

\* faulty variant: one pass over the document, track points and waypoints interleaved
parse_gpx_coordinates_onepass(doc) ==
    LET r == ReadPoints(SelectSeq(doc.elems, LAMBDA e : e.ns = GPX11), <<>>)
    IN  [raised |-> "None",
         ret |-> IF ~doc.wellformed \/ r.exc # "None" THEN <<>>
                 ELSE r.coordinates]

\* try: ... return coordinates / except Exception: return []
parse_gpx_coordinates(doc) ==
    LET r == GpxTryBody(doc)
    IN  IF r.exc # "None" THEN [raised |-> "None", ret |-> <<>>]
        ELSE [raised |-> "None", ret |-> r.coordinates]

-----------------------------------------------------------------------------
(* Insertion-ordered dict: a sequence of [year, coords] with distinct years *)

DictKeys(d) == {d[i].year : i \in 1..Len(d)}

DictGet(d, y) == (CHOOSE i \in 1..Len(d) : d[i].year = y)

\* d[y] = c: replaces in place when y is a key, appends otherwise
DictSet(d, y, c) ==
    IF y \in DictKeys(d)
        THEN [d EXCEPT ![DictGet(d, y)] = [year |-> y, coords |-> c]]
    ELSE Append(d, [year |-> y, coords |-> c])

-----------------------------------------------------------------------------
(* path_overlay.py: generate_html_map *)

\* len(colors)
PaletteSize == 15

\* all_coords.extend(coords) over the dict's items
RECURSIVE AllCoords(_)
AllCoords(d) ==
    IF d = <<>> THEN <<>> ELSE Head(d).coords \o AllCoords(Tail(d))

\* the enumerate loop: one polyline and one legend item for each year whose
\* coordinate list is not empty (i is the 0-based position in the dict)
RECURSIVE MapItems(_, _)
MapItems(d, i) ==
    IF i > Len(d) THEN <<>>
    ELSE IF d[i].coords = <<>> THEN MapItems(d, i + 1)
    ELSE <<[year |-> d[i].year,
            color |-> (i - 1) % PaletteSize,
            coords |-> d[i].coords,
            points |-> Len(d[i].coords)]>> \o MapItems(d, i + 1)

\* the sums the map centre is the quotient of
RECURSIVE SumLat(_)
SumLat(cs) == IF cs = <<>> THEN 0 ELSE Head(cs)[1] + SumLat(Tail(cs))

RECURSIVE SumLon(_)
SumLon(cs) == IF cs = <<>> THEN 0 ELSE Head(cs)[2] + SumLon(Tail(cs))

NoFile == [name |-> <<"none">>, kind |-> "none"]

\* returns before writing when there is no coordinate at all; otherwise
\* writes the document (title, legend, info panel, polylines, centre)
generate_html_map(d, output_file, md) ==
    LET all_coords == AllCoords(d)
        items == MapItems(d, 1)
    IN  IF all_coords = <<>>
            THEN [written |-> FALSE, reported |-> {"No coordinates found!"},
                  file |-> NoFile]
        ELSE [written |-> TRUE, reported |-> {},
              file |-> [name |-> output_file, kind |-> "html", title |-> md,
                        polylines |-> items, legend_items |-> items,
                        years_with_data |-> Len(d),
                        total_points |-> Len(all_coords),
                        center |-> <<SumLat(all_coords), SumLon(all_coords),
                                     Len(all_coords)>>]]

-----------------------------------------------------------------------------
(* Environment and dates *)

\* most years a per-year loop runs over
MaxYears == 3

\* START_YEAR's default; the years of the model start here
DefaultStartYear == 2012

LastYear == DefaultStartYear + MaxYears - 1

\* datetime.now(): a day of the last year of the model
Now == [y |-> LastYear, m |-> 11, d |-> 6]

\* values of TARGET_DATE: unset, empty, a date, text that is no %Y-%m-%d date
TargetDates == {"None", "", "2020-03-15", "15/03/2020"}

\* datetime.strptime(s, '%Y-%m-%d')
StrpTime(s) ==
    IF s = "2020-03-15"
        THEN [exc |-> "None", date |-> [y |-> 2020, m |-> 3, d |-> 15]]
    ELSE [exc |-> "ValueError", date |-> Now]

\* strftime('%m-%d') / f"{month:02d}-{day:02d}": the year is dropped
MonthDay(date) == <<date.m, date.d>>

\* f"{year}-{month_day}"
DateStr(y, md) == <<y, md[1], md[2]>>

\* most columns of a collage
MaxColumns == 3

\* the environments path_overlay.py is run in
EnvsA ==
    [REITTI_API_TOKEN : {"", "token"},
     START_YEAR : DefaultStartYear..(DefaultStartYear + 1),
     END_YEAR : (DefaultStartYear - 1)..LastYear,
     TARGET_DATE : TargetDates,
     REITTI_USERNAME : {""}, REITTI_PASSWORD : {""},
     COLLAGE_COLUMNS : {MaxColumns}]

\* the environments reitti_collage.py is run in
EnvsB ==
    [REITTI_API_TOKEN : {""},
     START_YEAR : DefaultStartYear..(LastYear + 1),
     END_YEAR : {LastYear},
     TARGET_DATE : {"None", "2020-03-15"},
     REITTI_USERNAME : {"", "user"}, REITTI_PASSWORD : {"", "secret"},
     COLLAGE_COLUMNS : 0..MaxColumns]

NoEnv ==
    [REITTI_API_TOKEN |-> "", START_YEAR |-> DefaultStartYear,
     END_YEAR |-> LastYear, TARGET_DATE |-> "None", REITTI_USERNAME |-> "",
     REITTI_PASSWORD |-> "", COLLAGE_COLUMNS |-> MaxColumns]

-----------------------------------------------------------------------------
(* path_overlay.py: main *)

\* the byte threshold of the success test
MinBytes == 1000

EmptyDoc == [wellformed |-> TRUE, elems |-> <<>>]

\* response bodies: an export with one track point, one with a waypoint and a
\* track point, a GPX 1.0 export (nothing in the namespace the parser reads),
\* and text that is no XML
OnePointDoc ==
    [wellformed |-> TRUE,
     elems |-> <<[tag |-> "trkpt", ns |-> GPX11, attrs |-> <<"1", "5">>]>>]

TwoPointDoc ==
    [wellformed |-> TRUE,
     elems |-> <<[tag |-> "wpt", ns |-> GPX11, attrs |-> <<" 2", "5">>],
                 [tag |-> "trkpt", ns |-> GPX11, attrs |-> <<"1", "5">>]>>]

LegacyDoc ==
    [wellformed |-> TRUE,
     elems |-> <<[tag |-> "trkpt", ns |-> GPX10, attrs |-> <<"1", "5">>]>>]

BrokenDoc == [wellformed |-> FALSE, elems |-> <<>>]

\* what requests.get does for one year: raises, or returns a response
Outcomes ==
    {[exc |-> TRUE, status |-> 0, size |-> 0, body |-> EmptyDoc]}
    \cup [exc : {FALSE}, status : {200, 404},
          size : {MinBytes, MinBytes + 1},
          body : {OnePointDoc, TwoPointDoc, LegacyDoc, BrokenDoc}]

\* faulty variant: the size test is >= instead of >
FetchYearGe(pby, y, o) ==
    IF ~o.exc /\ o.status = 200 /\ o.size >= MinBytes
          /\ parse_gpx_coordinates(o.body).ret # <<>>
        THEN DictSet(pby, y, parse_gpx_coordinates(o.body).ret)
    ELSE pby

\* one iteration's try block: the dict after the request for year y ended as o
FetchYear(pby, y, o) ==
    IF o.exc THEN pby
    ELSE IF o.status = 200 /\ o.size > MinBytes
        THEN LET r == parse_gpx_coordinates(o.body)
             IN  IF r.raised # "None" THEN pby
                 ELSE IF r.ret # <<>> THEN DictSet(pby, y, r.ret)
                 ELSE pby
    ELSE pby

\* faulty variant: the override is ignored
TargetDayNow(ev, now) == [exc |-> "None", md |-> MonthDay(now)]

\* the target day: TARGET_DATE when it is set and not empty, else today
TargetDay(ev, now) ==
    IF ev.TARGET_DATE \notin {"None", ""}
        THEN LET t == StrpTime(ev.TARGET_DATE)
             IN  [exc |-> t.exc, md |-> MonthDay(t.date)]
    ELSE [exc |-> "None", md |-> MonthDay(now)]

\* f"/output/path_overlay_{month_day}_{start_year}-{end_year}.html"
OverlayFile(md, ev) ==
    <<"/output/path_overlay", md, ev.START_YEAR, ev.END_YEAR>>

\* main up to the loop: the token check and the target day
A_Config ==
    /\ entry = "path_overlay.main" /\ pc = "start"
    /\ IF env.REITTI_API_TOKEN = ""
           THEN /\ reported' = reported \cup {"ERROR: REITTI_API_TOKEN not set"}
                /\ pc' = "exited" /\ exit_status' = 0
                /\ UNCHANGED <<month_day, year>>
       ELSE LET t == TargetDay(env, today)
            IN  IF t.exc # "None"
                    THEN /\ pc' = "exited" /\ exit_status' = 1
                         /\ UNCHANGED <<month_day, year, reported>>
                ELSE /\ month_day' = t.md
                     /\ year' = env.START_YEAR
                     /\ pc' = "loop"
                     /\ UNCHANGED <<reported, exit_status>>
    /\ UNCHANGED <<entry, env, today, paths_by_year, responses, requested,
                   output, gpx_content, parsed, driver, logins, login_page,
                   screenshot_paths, disk, image_paths, columns, collage_ret>>

\* faulty variant: a request exception is not caught and ends the program
AfterFetchAbort(o) ==
    IF o.exc THEN [pc |-> "exited", exit_status |-> 1]
    ELSE [pc |-> "loop", exit_status |-> -1]

\* where an iteration leaves the program: every exception of the iteration
\* is caught by its except clause, so the loop goes on
AfterFetch(o) == [pc |-> "loop", exit_status |-> -1]

\* one iteration of the fetch loop
A_Fetch ==
    /\ entry = "path_overlay.main" /\ pc = "loop"
    /\ year <= env.END_YEAR
    /\ \E o \in Outcomes :
          /\ requested' = Append(requested, DateStr(year, month_day))
          /\ responses' = responses @@ (year :> o)
          /\ paths_by_year' = FetchYear(paths_by_year, year, o)
          /\ pc' = AfterFetch(o).pc
          /\ exit_status' = AfterFetch(o).exit_status
    /\ year' = year + 1
    /\ UNCHANGED <<entry, env, today, month_day, output, reported,
                   gpx_content, parsed, driver, logins, login_page,
                   screenshot_paths, disk, image_paths, columns, collage_ret>>

\* after the loop: nothing found, or render and write the map
A_Finish ==
    /\ entry = "path_overlay.main" /\ pc = "loop"
    /\ year > env.END_YEAR
    /\ IF paths_by_year = <<>>
           THEN /\ reported' = reported \cup {"No path data found"}
                /\ output' = output
       ELSE LET r == generate_html_map(paths_by_year,
                                       OverlayFile(month_day, env), month_day)
            IN  /\ reported' = reported \cup r.reported
                /\ output' = IF r.written THEN output \cup {r.file}
                             ELSE output
    /\ pc' = "done" /\ exit_status' = 0
    /\ UNCHANGED <<entry, env, today, month_day, year, paths_by_year,
                   responses, requested, gpx_content, parsed, driver, logins,
                   login_page,
                   screenshot_paths, disk, image_paths, columns, collage_ret>>

-----------------------------------------------------------------------------
(* reitti_collage.py: create_collage *)

\* most image paths given to create_collage directly
MaxImages == 4

\* files: absent, present but not an image, and images of two sizes
MissingFile == [exists |-> FALSE, openable |-> FALSE, size |-> <<0, 0>>]
CorruptFile == [exists |-> TRUE, openable |-> FALSE, size |-> <<0, 0>>]
ImageFile(w, h) == [exists |-> TRUE, openable |-> TRUE, size |-> <<w, h>>]
FileKinds == {MissingFile, CorruptFile, ImageFile(2, 3), ImageFile(3, 2)}

\* os.path.exists(path) and Image.open(path) raising nothing
Loadable(dsk, path) ==
    path \in DOMAIN dsk /\ dsk[path].exists /\ dsk[path].openable

\* the loading loop: the paths whose image was appended to images
LoadImages(paths, dsk) == SelectSeq(paths, LAMBDA q : Loadable(dsk, q))

\* faulty variant: rows is len(images) // columns, without rounding up
CollageRowsFloor(n, cols) == n \div cols

\* rows = (len(images) + columns - 1) // columns
CollageRows(n, cols) == (n + cols - 1) \div cols

\* the paste loop's offset for the image at 0-based index idx
PastePos(idx, cols, w, h) ==
    [x |-> (idx % cols) * w, y |-> (idx \div cols) * h]

\* faulty variant: an empty canvas is saved when no image loaded
create_collage_always(paths, dsk, output_path, cols) ==
    [exc |-> "None", ret |-> "True", written |-> TRUE, reported |-> {},
     file |-> [name |-> output_path, kind |-> "png", width |-> 0,
               height |-> 0, pastes |-> <<>>]]

\* returns False without writing when no image loaded; divides by columns
\* (ZeroDivisionError when it is 0); else builds the canvas, pastes every
\* loaded image, resized to the first one's size, and saves
create_collage(paths, dsk, output_path, cols) ==
    LET images == LoadImages(paths, dsk)
    IN  IF images = <<>>
            THEN [exc |-> "None", ret |-> "False", written |-> FALSE,
                  reported |-> {"No valid images to create collage"},
                  file |-> NoFile]
        ELSE IF cols = 0
            THEN [exc |-> "ZeroDivisionError", ret |-> "raised",
                  written |-> FALSE, reported |-> {}, file |-> NoFile]
        ELSE LET img_width == dsk[images[1]].size[1]
                 img_height == dsk[images[1]].size[2]
                 rows == CollageRows(Len(images), cols)
             IN  [exc |-> "None", ret |-> "True", written |-> TRUE,
                  reported |-> {},
                  file |-> [name |-> output_path, kind |-> "png",
                            width |-> cols * img_width,
                            height |-> rows * img_height,
                            pastes |->
                              [i \in 1..Len(images) |->
                                 [src |-> images[i],
                                  at |-> PastePos(i - 1, cols, img_width,
                                                  img_height),
                                  size |-> <<img_width, img_height>>]]]]

-----------------------------------------------------------------------------
(* reitti_collage.py: login_to_reitti, take_screenshot, main *)

\* SCREENSHOT_WIDTH and SCREENSHOT_HEIGHT (their defaults)
ScreenshotWidth == 1920
ScreenshotHeight == 1080

\* what the browser shows after the form was submitted, or an exception
\* raised by one of the login steps
LoginPages ==
    [exc : {FALSE}, url_has_login : BOOLEAN, has_login_container : BOOLEAN]
    \cup {[exc |-> TRUE, url_has_login |-> FALSE,
           has_login_container |-> FALSE]}

NoPage ==
    [exc |-> FALSE, url_has_login |-> FALSE, has_login_container |-> FALSE]

\* faulty variant: only the URL is looked at
login_to_reitti_url_only(ev, page) ==
    IF ev.REITTI_USERNAME = "" \/ ev.REITTI_PASSWORD = ""
        THEN [sysexit |-> TRUE, ret |-> FALSE, attempted |-> FALSE]
    ELSE [sysexit |-> FALSE, attempted |-> TRUE,
          ret |-> ~page.exc /\ ~page.url_has_login]

\* sys.exit(1) when a credential is empty; else one pass through the form,
\* False on an exception or when the login page is still shown
login_to_reitti(ev, page) ==
    IF ev.REITTI_USERNAME = "" \/ ev.REITTI_PASSWORD = ""
        THEN [sysexit |-> TRUE, ret |-> FALSE, attempted |-> FALSE]
    ELSE IF page.exc
        THEN [sysexit |-> FALSE, ret |-> FALSE, attempted |-> TRUE]
    ELSE IF page.url_has_login \/ page.has_login_container
        THEN [sysexit |-> FALSE, ret |-> FALSE, attempted |-> TRUE]
    ELSE [sysexit |-> FALSE, ret |-> TRUE, attempted |-> TRUE]

\* what one capture does: driver.get raises, save_screenshot raises,
\* save_screenshot writes the file, or save_screenshot returns False (an
\* IOError inside it) and writes nothing
Captures == {"get_raises", "save_raises", "saved", "not_saved"}

\* True unless an exception was caught; the file exists only when saved
take_screenshot(capture) ==
    [ret |-> capture \in {"saved", "not_saved"},
     file_written |-> capture = "saved"]

\* os.path.join(SCREENSHOT_DIR, f"reitti_{date_str}.png")
ScreenshotPath(date_str) == <<"/output/screenshots/reitti">> \o date_str

\* os.path.join(OUTPUT_DIR, f"reitti_collage_{mm}-{dd}_{START_YEAR}-{year}.png")
CollageFile(md, ev, now) ==
    <<"/output/collages/reitti_collage", md, ev.START_YEAR, now.y>>

\* month and day of datetime.now(); TARGET_DATE is not read
CollageDay(ev, now) == MonthDay(now)

\* main up to the login: the date, the directories, setup_driver
B_Start ==
    /\ entry = "reitti_collage.main" /\ pc = "start"
    /\ month_day' = CollageDay(env, today)
    /\ \E launched \in BOOLEAN :
          IF launched
              THEN /\ driver' = "open" /\ pc' = "login"
                   /\ UNCHANGED exit_status
          ELSE /\ pc' = "exited" /\ exit_status' = 1
               /\ UNCHANGED driver
    /\ UNCHANGED <<entry, env, today, year, paths_by_year, responses,
                   requested, output, reported, gpx_content, parsed, logins,
                   login_page,
                   screenshot_paths, disk, image_paths, columns, collage_ret>>

\* login_to_reitti(driver) and main's reaction to its result
B_Login ==
    /\ entry = "reitti_collage.main" /\ pc = "login"
    /\ \E page \in LoginPages :
          LET r == login_to_reitti(env, page)
          IN  /\ logins' = IF r.attempted THEN logins + 1 ELSE logins
              /\ login_page' = IF r.attempted THEN page ELSE login_page
              /\ IF r.sysexit
                     THEN /\ reported' = reported \cup {"ERROR: credentials"}
                          /\ pc' = "exited" /\ exit_status' = 1
                          /\ UNCHANGED <<driver, year>>
                 ELSE IF ~r.ret
                     THEN /\ reported' = reported \cup {"Login failed"}
                          /\ driver' = "quit"
                          /\ pc' = "exited" /\ exit_status' = 1
                          /\ UNCHANGED year
                 ELSE /\ year' = env.START_YEAR
                      /\ pc' = "loop"
                      /\ UNCHANGED <<driver, reported, exit_status>>
    /\ UNCHANGED <<entry, env, today, month_day, paths_by_year, responses,
                   requested, output, gpx_content, parsed, screenshot_paths,
                   disk, image_paths, columns, collage_ret>>

\* one iteration of the screenshot loop
B_Screenshot ==
    /\ entry = "reitti_collage.main" /\ pc = "loop"
    /\ year <= today.y
    /\ \E capture \in Captures :
          LET date_str == DateStr(year, month_day)
              path == ScreenshotPath(date_str)
              r == take_screenshot(capture)
          IN  /\ requested' = Append(requested, date_str)
              /\ responses' = responses @@ (year :> capture)
              /\ disk' = IF r.file_written
                             THEN disk @@ (path :> ImageFile(ScreenshotWidth,
                                                             ScreenshotHeight))
                         ELSE disk
              /\ screenshot_paths' = IF r.ret
                                         THEN Append(screenshot_paths, path)
                                     ELSE screenshot_paths
    /\ year' = year + 1
    /\ UNCHANGED <<entry, pc, env, today, month_day, paths_by_year, output,
                   reported, gpx_content, parsed, driver, logins,
                   login_page, image_paths,
                   columns, collage_ret, exit_status>>

\* after the loop: the collage when a screenshot was taken, and the finally
\* block's driver.quit()
B_Compose ==
    /\ entry = "reitti_collage.main" /\ pc = "loop"
    /\ year > today.y
    /\ IF screenshot_paths = <<>>
           THEN /\ exit_status' = 0
                /\ UNCHANGED <<output, reported, collage_ret>>
       ELSE LET r == create_collage(screenshot_paths, disk,
                                    CollageFile(month_day, env, today),
                                    env.COLLAGE_COLUMNS)
            IN  /\ collage_ret' = r.ret
                /\ reported' = reported \cup r.reported
                /\ output' = IF r.written THEN output \cup {r.file}
                             ELSE output
                /\ exit_status' = IF r.exc # "None" THEN 1 ELSE 0
    /\ driver' = "quit"
    /\ pc' = "done"
    /\ UNCHANGED <<entry, env, today, month_day, year, paths_by_year,
                   responses, requested, gpx_content, parsed, logins,
                   login_page,
                   screenshot_paths, disk, image_paths, columns>>

-----------------------------------------------------------------------------
(* Direct calls of the three functions *)

NotParsed == [raised |-> "None", ret |-> <<>>]

\* coordinate lists of 0 to 3 points
CoordLists ==
    { <<>>, << <<1, 5>> >>, << <<1, 5>>, <<2, 5>> >>,
      << <<2, 5>>, <<1, 5>>, <<1, 5>> >> }

\* most years of a mapping given to generate_html_map directly
MaxMapYears == 2

\* year -> coordinate list mappings: distinct years, in any insertion order
MapInputs ==
    {d \in SeqsUpTo([year : DefaultStartYear..LastYear, coords : CoordLists],
                    MaxMapYears) :
        \A i, j \in 1..Len(d) : i # j => d[i].year # d[j].year}

MapDay == <<3, 15>>

CallParse ==
    /\ entry = "parse_gpx_coordinates" /\ pc = "start"
    /\ parsed' = parse_gpx_coordinates(gpx_content)
    /\ pc' = "done"
    /\ UNCHANGED <<entry, env, today, month_day, year, paths_by_year,
                   responses, requested, output, reported, gpx_content,
                   driver, logins,
                   login_page, screenshot_paths, disk, image_paths,
                   columns, collage_ret, exit_status>>

CallMap ==
    /\ entry = "generate_html_map" /\ pc = "start"
    /\ LET r == generate_html_map(paths_by_year, <<"/output/map.html">>,
                                  MapDay)
       IN  /\ reported' = reported \cup r.reported
           /\ output' = IF r.written THEN output \cup {r.file} ELSE output
    /\ pc' = "done"
    /\ UNCHANGED <<entry, env, today, month_day, year, paths_by_year,
                   responses, requested, gpx_content, parsed, driver, logins,
                   login_page,
                   screenshot_paths, disk, image_paths, columns, collage_ret,
                   exit_status>>

CallCollage ==
    /\ entry = "create_collage" /\ pc = "start"
    /\ LET r == create_collage(image_paths, disk, <<"/output/collage.png">>,
                               columns)
       IN  /\ collage_ret' = r.ret
           /\ reported' = reported \cup r.reported
           /\ output' = IF r.written THEN output \cup {r.file} ELSE output
    /\ pc' = "done"
    /\ UNCHANGED <<entry, env, today, month_day, year, paths_by_year,
                   responses, requested, gpx_content, parsed, driver, logins,
                   login_page,
                   screenshot_paths, disk, image_paths, columns, exit_status>>

-----------------------------------------------------------------------------
(* The specification *)

InitWith(e, ev, pby, gpx, dsk, imgs, cols) ==
    /\ entry = e /\ pc = "start" /\ env = ev /\ today = Now
    /\ month_day = <<0, 0>> /\ year = 0
    /\ paths_by_year = pby /\ responses = <<>> /\ requested = <<>>
    /\ output = {} /\ reported = {}
    /\ gpx_content = gpx /\ parsed = NotParsed
    /\ driver = "none" /\ logins = 0 /\ login_page = NoPage
    /\ screenshot_paths = <<>>
    /\ disk = dsk /\ image_paths = imgs /\ columns = cols
    /\ collage_ret = "None" /\ exit_status = -1

Init ==
    \/ \E ev \in EnvsA :
          InitWith("path_overlay.main", ev, <<>>, EmptyDoc, <<>>, <<>>, 0)
    \/ \E ev \in EnvsB :
          InitWith("reitti_collage.main", ev, <<>>, EmptyDoc, <<>>, <<>>, 0)
    \/ \E doc \in Documents :
          InitWith("parse_gpx_coordinates", NoEnv, <<>>, doc, <<>>, <<>>, 0)
    \/ \E d \in MapInputs :
          InitWith("generate_html_map", NoEnv, d, EmptyDoc, <<>>, <<>>, 0)
    \/ \E n \in 0..MaxImages : \E dsk \in [1..n -> FileKinds] :
          \E cols \in 0..MaxColumns :
             InitWith("create_collage", NoEnv, <<>>, EmptyDoc, dsk,
                      [i \in 1..n |-> i], cols)

Next ==
    \/ A_Config \/ A_Fetch \/ A_Finish
    \/ B_Start \/ B_Login \/ B_Screenshot \/ B_Compose
    \/ CallParse \/ CallMap \/ CallCollage

Spec == Init /\ [][Next]_vars

-----------------------------------------------------------------------------
(* Properties *)

ProgramA == entry = "path_overlay.main"
ProgramB == entry = "reitti_collage.main"

\* C1: in Program B, every exit that follows a successful browser launch
\* (normal completion, missing credentials, login failure, an exception in
\* the loop or in the collage composition) has released the browser.
C1_BrowserReleasedOnEveryExit ==
    (ProgramB /\ pc \in {"done", "exited"} /\ driver # "none")
        => driver = "quit"

\* a credential is empty
CredentialsMissing ==
    env.REITTI_USERNAME = "" \/ env.REITTI_PASSWORD = ""

\* the login steps ran and raised, or the page after the submit is still the
\* login page
LoginCheckFailed ==
    /\ logins >= 1
    /\ \/ login_page.exc
       \/ login_page.url_has_login
       \/ login_page.has_login_container

\* C2: in Program B, when a credential is empty or the login check fails,
\* the run ends with exit status 1, never enters the screenshot loop, has
\* navigated to no day view, captured no screenshot and written no collage;
\* login is attempted at most once in any run.
C2_LoginFailureExits ==
    ProgramB =>
        /\ logins <= 1
        /\ (driver # "none" /\ pc # "login"
              /\ (CredentialsMissing \/ LoginCheckFailed))
           => /\ pc = "exited" /\ exit_status = 1
              /\ requested = <<>> /\ screenshot_paths = <<>>
              /\ disk = <<>> /\ output = {}

C2_Witness ==
    /\ ProgramB /\ pc = "exited" /\ exit_status = 1 /\ logins = 1
    /\ ~CredentialsMissing
    /\ login_page.has_login_container /\ ~login_page.url_has_login
    /\ ~login_page.exc /\ requested = <<>>

\* the request raised nothing, returned 200 with more than 1000 bytes, and
\* the parser returned at least one coordinate for the body
GoodResponse(o) ==
    /\ ~o.exc /\ o.status = 200 /\ o.size > 1000
    /\ parse_gpx_coordinates(o.body).ret # <<>>

\* C3: throughout and at the end of Program A's fetch loop, a year of
\* START_YEAR..END_YEAR is a key of paths_by_year exactly when its own
\* request was made and was good (no exception, status 200, more than 1000
\* bytes, at least one coordinate parsed); no key maps to an empty sequence
\* and no other year is a key.
C3_KeysAreTheGoodYears ==
    (ProgramA /\ pc \in {"loop", "done"}) =>
        /\ \A y \in env.START_YEAR..env.END_YEAR :
              (y \in DictKeys(paths_by_year))
                 <=> (y \in DOMAIN responses /\ GoodResponse(responses[y]))
        /\ DictKeys(paths_by_year) \subseteq env.START_YEAR..env.END_YEAR
        /\ \A i \in 1..Len(paths_by_year) : paths_by_year[i].coords # <<>>
        /\ (pc = "done" =>
              DOMAIN responses = env.START_YEAR..env.END_YEAR)

C3_Witness ==
    /\ ProgramA /\ pc = "done"
    /\ env.START_YEAR = DefaultStartYear
    /\ env.END_YEAR = DefaultStartYear + 2
    /\ responses[DefaultStartYear].exc
    /\ GoodResponse(responses[DefaultStartYear + 1])
    /\ responses[DefaultStartYear + 2] =
          [exc |-> FALSE, status |-> 200, size |-> 1000, body |-> OnePointDoc]
    /\ DictKeys(paths_by_year) = {DefaultStartYear + 1}

\* both attributes of an element are text float() accepts
NumericAttrs(e) ==
    PyFloat(e.attrs[1]).exc = "None" /\ PyFloat(e.attrs[2]).exc = "None"

\* the coordinates of a sequence of elements, one per element, in order
CoordsOf(els) ==
    [i \in 1..Len(els) |->
        <<PyFloat(els[i].attrs[1]).val, PyFloat(els[i].attrs[2]).val>>]

TagOnly(els, tag) == SelectSeq(els, LAMBDA e : e.tag = tag)

InGpx11(els) == SelectSeq(els, LAMBDA e : e.ns = GPX11)

ParseCalled == entry = "parse_gpx_coordinates" /\ pc = "done"

\* C4 as stated: for every well-formed document whose track points and
\* waypoints all carry numeric lat and lon, the result is all track points
\* and then all waypoints, each group in document order, one coordinate per
\* element.
C4_Original ==
    (ParseCalled /\ gpx_content.wellformed
       /\ \A i \in 1..Len(gpx_content.elems) :
             NumericAttrs(gpx_content.elems[i]))
    => /\ parsed.ret = CoordsOf(TagOnly(gpx_content.elems, "trkpt"))
                          \o CoordsOf(TagOnly(gpx_content.elems, "wpt"))
       /\ Len(parsed.ret) = Len(gpx_content.elems)

\* C4 as amended: for every well-formed document whose track points and
\* waypoints in the GPX 1.1 namespace all carry numeric lat and lon, the
\* result is those track points and then those waypoints, each group in
\* document order, one coordinate per such element; trkpt and wpt elements
\* of another namespace contribute nothing.
C4_TrackPointsThenWaypoints ==
    (ParseCalled /\ gpx_content.wellformed
       /\ \A i \in 1..Len(gpx_content.elems) :
             gpx_content.elems[i].ns = GPX11
                => NumericAttrs(gpx_content.elems[i]))
    => /\ parsed.raised = "None"
       /\ parsed.ret =
             CoordsOf(TagOnly(InGpx11(gpx_content.elems), "trkpt"))
                \o CoordsOf(TagOnly(InGpx11(gpx_content.elems), "wpt"))
       /\ Len(parsed.ret) = Len(InGpx11(gpx_content.elems))

C4_Witness ==
    /\ ParseCalled /\ gpx_content.wellformed
    /\ Len(gpx_content.elems) = 3
    /\ gpx_content.elems[1] =
          [tag |-> "wpt", ns |-> GPX11, attrs |-> <<" 2", "5">>]
    /\ gpx_content.elems[2] =
          [tag |-> "trkpt", ns |-> GPX11, attrs |-> <<"1", "5">>]
    /\ gpx_content.elems[3] =
          [tag |-> "trkpt", ns |-> GPX11, attrs |-> <<" 2", "5">>]
    /\ parsed.ret = << <<1, 5>>, <<2, 5>>, <<2, 5>> >>

\* C5 as stated: the parser never raises, and returns the empty sequence for
\* malformed XML and for a document with a track point or waypoint whose lat
\* or lon is missing or not numeric.
C5_Original ==
    ParseCalled =>
        /\ parsed.raised = "None"
        /\ (\/ ~gpx_content.wellformed
            \/ \E i \in 1..Len(gpx_content.elems) :
                  ~NumericAttrs(gpx_content.elems[i]))
           => parsed.ret = <<>>

\* C5 as amended: the parser never raises, and returns the empty sequence
\* (never the coordinates read before the failure) for malformed XML and for
\* a document with a track point or waypoint in the GPX 1.1 namespace whose
\* lat or lon is missing or not numeric; in Program A a year whose body fails
\* to parse is absent, like a year with no data.
C5_FailedParseIsEmpty ==
    /\ ParseCalled =>
          /\ parsed.raised = "None"
          /\ (\/ ~gpx_content.wellformed
              \/ \E i \in 1..Len(gpx_content.elems) :
                    /\ gpx_content.elems[i].ns = GPX11
                    /\ ~NumericAttrs(gpx_content.elems[i]))
             => parsed.ret = <<>>
    /\ ProgramA =>
          \A y \in DOMAIN responses :
             ~responses[y].body.wellformed => y \notin DictKeys(paths_by_year)

C5_Witness ==
    /\ ParseCalled /\ gpx_content.wellformed
    /\ Len(gpx_content.elems) = 2
    /\ gpx_content.elems[1] =
          [tag |-> "trkpt", ns |-> GPX11, attrs |-> <<"1", "5">>]
    /\ gpx_content.elems[2] =
          [tag |-> "wpt", ns |-> GPX11, attrs |-> <<"None", "5">>]
    /\ parsed.ret = <<>>

CollageCalled == entry = "create_collage" /\ pc = "done"

\* ceil(n / c) for c >= 1
CeilDiv(n, c) == CHOOSE r \in 0..n : r * c >= n /\ (r - 1) * c < n

\* C6: for n >= 1 loadable images and c >= 1 columns, create_collage writes a
\* canvas of width c x W and height ceil(n/c) x H, (W, H) the first loaded
\* image's size, with the i-th loaded image (0-indexed) at offset
\* ((i mod c) x W, (i div c) x H); every image lies inside the canvas and no
\* two images share a cell.
C6_CollageGrid ==
    (CollageCalled /\ columns >= 1
       /\ LoadImages(image_paths, disk) # <<>>)
    => LET imgs == LoadImages(image_paths, disk)
           n == Len(imgs)
           W == disk[imgs[1]].size[1]
           H == disk[imgs[1]].size[2]
       IN  /\ collage_ret = "True"
           /\ Cardinality(output) = 1
           /\ \A f \in output :
                 /\ f.width = columns * W
                 /\ f.height = CeilDiv(n, columns) * H
                 /\ Len(f.pastes) = n
                 /\ \A i \in 1..n :
                       /\ f.pastes[i].src = imgs[i]
                       /\ f.pastes[i].at.x = ((i - 1) % columns) * W
                       /\ f.pastes[i].at.y = ((i - 1) \div columns) * H
                       /\ f.pastes[i].at.x + f.pastes[i].size[1] <= f.width
                       /\ f.pastes[i].at.y + f.pastes[i].size[2] <= f.height
                 /\ \A i, j \in 1..n :
                       i # j => f.pastes[i].at # f.pastes[j].at

\* 4 equal-size images, 3 columns: canvas 3W x 2H, image 3 at row 1, column 0
C6_Witness ==
    /\ CollageCalled /\ columns = 3
    /\ image_paths = <<1, 2, 3, 4>>
    /\ \A q \in 1..4 : disk[q] = ImageFile(2, 3)
    /\ \E f \in output :
          /\ f.width = 6 /\ f.height = 6
          /\ f.pastes[4].at = [x |-> 0, y |-> 3]

MapCalled == entry = "generate_html_map" /\ pc = "done"

\* C7: nothing to output means nothing written, and failure reported:
\* generate_html_map with no coordinate writes no file and reports it;
\* create_collage with no loadable image writes no file and returns False;
\* Program A with an empty paths_by_year and Program B with an empty
\* screenshot_paths end with no file written.
C7_NothingToOutputNothingWritten ==
    /\ (MapCalled /\ AllCoords(paths_by_year) = <<>>)
          => (output = {} /\ reported # {})
    /\ (CollageCalled /\ LoadImages(image_paths, disk) = <<>>)
          => (output = {} /\ collage_ret = "False" /\ reported # {})
    /\ (ProgramA /\ paths_by_year = <<>>)
          => (output = {} /\ (pc = "done" => reported # {}))
    /\ (ProgramB /\ screenshot_paths = <<>>) => output = {}
    /\ (ProgramB /\ LoadImages(screenshot_paths, disk) = <<>>)
          => output = {}

C7_Witness ==
    /\ CollageCalled /\ columns = 3
    /\ image_paths = <<1, 2>>
    /\ disk[1] = MissingFile /\ disk[2] = CorruptFile
    /\ collage_ret = "False" /\ output = {}

\* the legend's point counts
LegendPoints(f) == [i \in 1..Len(f.legend_items) |-> f.legend_items[i].points]

\* C8: for every mapping with at least one coordinate, the written document
\* has exactly one polyline and one legend entry per year of the mapping,
\* each with that year's point count; "Years with Data" equals the number of
\* legend entries and "Total Points" the sum of the legend's point counts.
C8_OneEntryPerYear ==
    (MapCalled /\ AllCoords(paths_by_year) # <<>>)
    => /\ Cardinality(output) = 1
       /\ \A f \in output :
             /\ Len(f.polylines) = Len(paths_by_year)
             /\ Len(f.legend_items) = Len(paths_by_year)
             /\ \A i \in 1..Len(paths_by_year) :
                   \E k \in 1..Len(f.legend_items) :
                      /\ f.legend_items[k].year = paths_by_year[i].year
                      /\ f.legend_items[k].points
                            = Len(paths_by_year[i].coords)
             /\ f.years_with_data = Len(f.legend_items)
             /\ f.total_points = SumSeq(LegendPoints(f))

\* every requested date and every output file name carries month-day md
UsesDay(md) ==
    /\ \A i \in 1..Len(requested) :
          requested[i][2] = md[1] /\ requested[i][3] = md[2]
    /\ \A f \in output : f.name[2] = md

\* C9 as stated: in Program A and in Program B alike, when TARGET_DATE is set
\* every per-year date requested and the output file name use the override's
\* month-day.
C9_Original ==
    ((ProgramA \/ ProgramB) /\ env.TARGET_DATE = "2020-03-15"
       /\ pc \in {"loop", "done"})
    => UsesDay(<<3, 15>>)

\* C9 as amended: Program A takes the month-day from TARGET_DATE when it is
\* set and not empty, and from the current date otherwise (a value that is no
\* %Y-%m-%d date ends the run before any request); Program B never reads
\* TARGET_DATE and always uses the current date's month-day.
C9_TargetDay ==
    /\ (ProgramA /\ pc \in {"loop", "done"})
          => /\ env.TARGET_DATE \in {"None", "", "2020-03-15"}
             /\ month_day = IF env.TARGET_DATE = "2020-03-15" THEN <<3, 15>>
                            ELSE <<today.m, today.d>>
             /\ UsesDay(month_day)
    /\ (ProgramA /\ env.TARGET_DATE = "15/03/2020")
          => (requested = <<>> /\ output = {})
    /\ (ProgramB /\ pc \in {"login", "loop", "done"})
          => /\ month_day = <<today.m, today.d>>
             /\ UsesDay(month_day)

C9_Witness ==
    /\ ProgramA /\ pc = "done" /\ env.TARGET_DATE = "2020-03-15"
    /\ Len(requested) >= 2
    /\ \A i \in 1..Len(requested) : requested[i][2] = 3 /\ requested[i][3] = 15
    /\ \E f \in output : f.name[2] = <<3, 15>>

\* the dates of n consecutive years from first on, in ascending order
YearsRequested(first, n, md) == [i \in 1..n |-> DateStr(first + i - 1, md)]

\* C10: in Program A's fetch loop (START_YEAR..END_YEAR) and Program B's
\* screenshot loop (START_YEAR..current year), whatever the earlier outcomes
\* were, the years attempted so far are exactly the years below the loop
\* variable, each once and in ascending order; no outcome ends the run inside
\* the loop; the loop can always take its next step, and the step after the
\* loop is reached only with every year of the range attempted.
C10_EveryYearOnceAscending ==
    /\ (ProgramA /\ month_day # <<0, 0>>)
          => /\ pc \in {"loop", "done"}
             /\ year >= env.START_YEAR
             /\ requested = YearsRequested(env.START_YEAR,
                                           year - env.START_YEAR, month_day)
             /\ DOMAIN responses = env.START_YEAR..(year - 1)
             /\ (pc = "loop" => ENABLED (A_Fetch \/ A_Finish))
             /\ (pc = "done" => year = IF env.END_YEAR >= env.START_YEAR
                                           THEN env.END_YEAR + 1
                                       ELSE env.START_YEAR)
    /\ (ProgramB /\ pc \in {"loop", "done"})
          => /\ year >= env.START_YEAR
             /\ requested = YearsRequested(env.START_YEAR,
                                           year - env.START_YEAR, month_day)
             /\ DOMAIN responses = env.START_YEAR..(year - 1)
             /\ (pc = "loop" => ENABLED (B_Screenshot \/ B_Compose))
             /\ (pc = "done" => year = IF today.y >= env.START_YEAR
                                           THEN today.y + 1
                                       ELSE env.START_YEAR)

C10_Witness ==
    /\ ProgramA /\ pc = "done"
    /\ env.START_YEAR = DefaultStartYear
    /\ env.END_YEAR = DefaultStartYear + 2
    /\ responses[DefaultStartYear].exc
    /\ responses[DefaultStartYear + 1].status = 404
    /\ ~responses[DefaultStartYear + 2].body.wellformed
    /\ Len(requested) = 3

====
